---- MODULE Spec2Model ----
(***************************************************************************)
(* python-libaio: the AIOContext request/completion state machine         *)
(* (src/libaio/__init__.py) over a model of the kernel AIO queue whose     *)
(* calls are bound in src/libaio/libaio.py.                                *)
(*                                                                         *)
(* The Python side is the registration table _submitted, the context      *)
(* handle _ctx and the completion hooks.  The kernel side is the set of    *)
(* requests in flight and the ring of completion records not yet reaped.   *)
(* Every accepted submission gets a history number (its index in           *)
(* accepted); the numbers are not visible to the Python code, which keys   *)
(* everything on the address of the block's iocb, i.e. on the block.       *)
(*                                                                         *)
(* Spec is the context with its kernel queue; SpecBlock is one AIOBlock,   *)
(* its constructor and its properties; SpecHook is the context with hooks  *)
(* that submit their block again; SpecRetain is the context with blocks    *)
(* whose buffer list is assigned between the calls; SpecLayout is the      *)
(* iocb and io_event structures in memory on every build; SpecPrio is one  *)
(* block given every priority value of ioprio.py.                          *)
(***************************************************************************)
EXTENDS Integers, Sequences, FiniteSets, TLC

\* ---- bounds of the model ------------------------------------------------
NumBlocks == 2
MaxSubmissions == 2
\* submissions a completion hook may add to these
MaxResubmissions == 1
\* buffer lists a block is given, the one it is built with included
MaxBufferLists == 2
MaxBatch == 2
MaxRelease == 2

\* AIOContext(maxevents), as the tests construct it
Maxevents == 1

\* ---- errno values used by the code --------------------------------------
EINVAL == 22
EINPROGRESS == 115
EAGAIN == 11

Blocks == 1..NumBlocks

\* (res, res2) pairs the kernel may put in a completion record
Results == {<<4, 0>>, <<-125, 1>>}

\* Python's None, where an integer argument is expected
NoneV == -1

VARIABLES
    ctx,         \* AIOContext._ctx: "open" (a handle) or "none" (class attribute None)
    _submitted,  \* AIOContext._submitted: insertion-ordered keys of the dict
    kept,        \* AIOContext._submitted: the submission state held per key
    bufs,        \* per block: which (_buffer_list, _iovec) pair it holds now
    kmem,        \* kernel: the pair each submission's iocb pointed to
    accepted,    \* history: block of every submission the kernel accepted
    inflight,    \* kernel: submissions in flight
    ring,        \* kernel: completion records not yet reaped
    deferred,    \* history: submissions whose cancel was answered EINPROGRESS
    reaped,      \* history: submissions whose record was handed to Python
    hooked,      \* history: onCompletion invocations per submission
    released,    \* history: number of io_queue_release calls made
    before,      \* last call: _submitted when the call was made
    calls,       \* last call: its onCompletion invocations, in order
    hooks,       \* last call: per invocation, what the hook found and did
    op,          \* last call: name
    arg,         \* last call: blocks given
    kcalls,      \* last call: number of libaio calls it made
    kargs,       \* last call: (min_nr, nr) it handed to io_getevents
    kans,        \* last call: return value of its (last) libaio call
    kev,         \* last call: completion records the kernel handed over
    ret,         \* last call: returned value
    exc,         \* last call: exception raised
    blk,         \* an AIOBlock: its iocb fields and its Python attributes
    bcall,       \* last call on the AIOBlock: name, argument, exception, block before
    abi          \* the build, an io_event in memory, what was written and read

vars == <<ctx, _submitted, kept, bufs, kmem, accepted, inflight, ring,
          deferred, reaped,
          hooked, released, before, calls, hooks, op, arg, kcalls, kargs,
          kans, kev, ret, exc, blk, bcall, abi>>

\* the AIOContext and its kernel queue
cvars == <<ctx, _submitted, kept, bufs, kmem, accepted, inflight, ring,
           deferred, reaped,
           hooked, released, before, calls, hooks, op, arg, kcalls, kargs,
           kans, kev, ret, exc>>

\* the AIOBlock
bvars == <<blk, bcall>>

\* ---- helpers --------------------------------------------------------------
Range(s) == {s[i] : i \in DOMAIN s}

Min(a, b) == IF a < b THEN a ELSE b

Max(a, b) == IF a > b THEN a ELSE b

NoExc == [type |-> "none", errno |-> 0]

OSError(e) == [type |-> "OSError", errno |-> e]

KeyError == [type |-> "KeyError", errno |-> 0]

HookError == [type |-> "HookError", errno |-> 0]

RuntimeError == [type |-> "RuntimeError", errno |-> 0]

\* return values: an integer, None, a tuple, or a list of tuples/None
RetInt(n) == [kind |-> "int", n |-> n, items |-> <<>>]

RetNone == [kind |-> "None", n |-> 0, items |-> <<>>]

RetTuple(t) == [kind |-> "tuple", n |-> 0, items |-> <<t>>]

RetList(l) == [kind |-> "list", n |-> 0, items |-> l]

NoRet == [kind |-> "raised", n |-> 0, items |-> <<>>]

\* libaio._raise_on_negative: a negative result becomes OSError(-result)
_raise_on_negative(result) ==
    IF result < 0 THEN OSError(0 - result) ELSE NoExc

\* dict: d[key] = value (an existing key keeps its position)
DictSet(d, b) == IF b \in Range(d) THEN d ELSE Append(d, b)

\* dict: d.pop(key) for a key that is present
DictPop(d, b) == SelectSeq(d, LAMBDA x : x # b)

\* ---- kernel ---------------------------------------------------------------
\* The kernel finishes a request in flight and queues its completion record.
\* ---- AIOContext.__init__ ---------------------------------------------------
\* what io_queue_init may return
InitAnswers == {0, 0 - EAGAIN}

\* io_queue_init raised: self._ctx was never assigned, the class attribute None
\* shows through, and no caller holds the object; only __del__ reaches it
InitFailed == ctx = "none" /\ released = 0

KernelComplete ==
    \E sid \in inflight : \E r \in Results :
        /\ inflight' = inflight \ {sid}
        /\ ring' = Append(ring, [sid |-> sid, obj |-> accepted[sid],
                                 res |-> r[1], res2 |-> r[2]])
        /\ UNCHANGED <<ctx, _submitted, kept, bufs, kmem, accepted,
                       deferred, reaped, hooked, released, before, calls, hooks, op, arg, kcalls,
                       kargs, kans, kev, ret, exc, blk, bcall, abi>>

\* ---- AIOContext.submit ----------------------------------------------------
\* no entry, so no state held
NoState == 0

\* AIOBlock._getSubmissionState: the pair the block holds when asked
_getSubmissionState(block) == bufs[block]

\* the second half of submitted[addressof(block._iocb)] = (block, state), for
\* block in block_list[:submitted_count]
Keep(states, block_list, submitted_count) ==
    [b \in Blocks |->
        IF \E i \in 1..submitted_count : block_list[i] = b
        THEN _getSubmissionState(b)
        ELSE states[b]]

RECURSIVE RegisterWhole(_, _, _)
\* a submit that registers the whole batch, whatever io_submit returned
RegisterWhole(submitted, block_list, submitted_count) ==
    IF block_list = <<>> THEN submitted
    ELSE DictSet(RegisterWhole(submitted,
                     SubSeq(block_list, 1, Len(block_list) - 1), submitted_count),
                 block_list[Len(block_list)])

RECURSIVE Register(_, _, _)
\* for block in block_list[:submitted_count]: submitted[addressof(...)] = ...
Register(submitted, block_list, submitted_count) ==
    IF submitted_count = 0 THEN submitted
    ELSE DictSet(Register(submitted, block_list, submitted_count - 1),
                 block_list[submitted_count])

Batches == UNION {[1..n -> Blocks] : n \in 1..MaxBatch}

\* a submit that fills the table before it calls io_submit
SubmitRaiseRegistered(block_list, e) ==
    /\ kans' = 0 - e
    /\ exc' = _raise_on_negative(0 - e)
    /\ ret' = NoRet
    /\ _submitted' = DictSet(_submitted, block_list[1])
    /\ kept' = Keep(kept, block_list, 1)
    /\ UNCHANGED <<accepted, inflight, kmem>>

\* io_submit answered with a negative value: the errcheck raises
SubmitRaise(block_list, e) ==
    /\ kans' = 0 - e
    /\ exc' = _raise_on_negative(0 - e)
    /\ ret' = NoRet
    /\ UNCHANGED <<_submitted, kept, accepted, inflight, kmem>>

\* io_submit accepted the first k blocks
SubmitAccept(block_list, k) ==
    /\ Len(accepted) + k <= MaxSubmissions
    /\ kans' = k
    /\ accepted' = accepted \o SubSeq(block_list, 1, k)
    /\ inflight' = inflight \cup (Len(accepted) + 1 .. Len(accepted) + k)
    /\ kmem' = kmem \o [i \in 1..k |-> _getSubmissionState(block_list[i])]
    /\ _submitted' = Register(_submitted, block_list, k)
    /\ kept' = Keep(kept, block_list, k)
    /\ ret' = RetInt(k)
    /\ exc' = _raise_on_negative(k)

Submit ==
    \E block_list \in Batches :
        /\ ~InitFailed
        /\ op' = "submit"
        /\ arg' = block_list
        /\ before' = _submitted
        /\ kcalls' = 1
        /\ kargs' = <<>>
        /\ kev' = <<>>
        /\ calls' = <<>>
        /\ hooks' = <<>>
        /\ \/ SubmitRaise(block_list, EINVAL)
           \/ /\ ctx = "open"
              /\ \E k \in 1..Len(block_list) : SubmitAccept(block_list, k)
        /\ UNCHANGED <<ctx, bufs, ring, deferred, reaped, hooked, released,
                       blk, bcall, abi>>

\* ---- AIOContext._eventToPython -------------------------------------------
\* State the Python calls thread through: the table, the hook history and the
\* kernel's queue.
World ==
    [submitted |-> _submitted, hooked |-> hooked, calls |-> <<>>,
     hooks |-> <<>>, accepted |-> accepted, kept |-> kept, kmem |-> kmem,
     inflight |-> inflight, ring |-> ring, deferred |-> deferred,
     reaped |-> reaped, kcalls |-> 0, kev |-> <<>>]

\* what an onCompletion callable does when called: it returns, it raises, or it
\* submits its own block again to the context and returns
HookReturns == "returns"

HookRaises == "raises"

HookSubmits == "submits"

\* self.submit([block]) called from inside the hook: io_submit takes the block,
\* or answers EAGAIN once the queue has had all the submissions it can take
submit(w, block) ==
    IF Len(w.accepted) >= MaxSubmissions + MaxResubmissions
    THEN [w |-> [w EXCEPT !.kcalls = @ + 1], exc |-> OSError(EAGAIN)]
    ELSE [w |-> [w EXCEPT !.kcalls = @ + 1,
                          !.accepted = Append(@, block),
                          !.kmem = Append(@, _getSubmissionState(block)),
                          !.kept = Keep(@, <<block>>, 1),
                          !.inflight = @ \cup {Len(w.accepted) + 1},
                          !.submitted = Register(@, <<block>>, 1)],
          exc |-> NoExc]

\* block.onCompletion(res, res2), after the statements before it left the world w
onCompletion(w, event, hook) ==
    LET called == [w EXCEPT
            !.hooked[event.sid] = @ + 1,
            !.calls = Append(@, [block |-> event.obj, res |-> event.res,
                                 res2 |-> event.res2, sid |-> event.sid]),
            !.hooks = Append(@, [entry |-> event.obj \in Range(w.submitted),
                                 does |-> hook])]
    IN  IF hook = HookRaises THEN [w |-> called, exc |-> HookError]
        ELSE IF hook = HookSubmits THEN submit(called, event.obj)
        ELSE [w |-> called, exc |-> NoExc]

\* an _eventToPython that reads the entry and leaves it in the table
_eventToPythonKeeping(w, event, hook) ==
    IF event.obj \notin Range(w.submitted)
    THEN [w |-> w, exc |-> KeyError, value |-> NoRet]
    ELSE LET done == onCompletion(w, event, hook)
         IN  IF done.exc # NoExc
             THEN [w |-> done.w, exc |-> done.exc, value |-> NoRet]
             ELSE [w |-> done.w, exc |-> NoExc,
                   value |-> RetTuple(<<event.obj, event.res, event.res2>>)]

\* an _eventToPython that passes over a record whose block has no entry
_eventToPythonSkipping(w, event, hook) ==
    IF event.obj \notin Range(w.submitted)
    THEN [w |-> w, exc |-> NoExc,
          value |-> RetTuple(<<event.obj, event.res, event.res2>>)]
    ELSE LET popped == [w EXCEPT !.submitted = DictPop(w.submitted, event.obj),
                                 !.kept[event.obj] = NoState]
             done == onCompletion(popped, event, hook)
         IN  IF done.exc # NoExc
             THEN [w |-> done.w, exc |-> done.exc, value |-> NoRet]
             ELSE [w |-> done.w, exc |-> NoExc,
                   value |-> RetTuple(<<event.obj, event.res, event.res2>>)]

\* pop the entry keyed by the record's obj, call the hook, build the tuple.
\* hook: what the onCompletion callable does when called.
_eventToPython(w, event, hook) ==
    IF event.obj \notin Range(w.submitted)
    THEN [w |-> w, exc |-> KeyError, value |-> NoRet]
    ELSE LET popped == [w EXCEPT !.submitted = DictPop(w.submitted, event.obj),
                                 !.kept[event.obj] = NoState]
             done == onCompletion(popped, event, hook)
         IN  IF done.exc # NoExc
             THEN [w |-> done.w, exc |-> done.exc, value |-> NoRet]
             ELSE [w |-> done.w, exc |-> NoExc,
                   value |-> RetTuple(<<event.obj, event.res, event.res2>>)]

\* ---- AIOContext.getEvents -------------------------------------------------
\* the (min_nr, nr, timeout) triples getEvents is called with
GetEventsCalls ==
    { <<NoneV, NoneV, NoneV>>, <<1, NoneV, NoneV>>, <<0, NoneV, NoneV>>,
      <<1, 1, NoneV>>, <<NoneV, 1, NoneV>>, <<1, NoneV, 1>> }

RECURSIVE EventList(_, _, _, _)
\* [self._eventToPython(event_buffer[x]) for x in range(actual_nr)], from x on;
\* h.at is the position of the record whose hook does h.does (0: none), the
\* other hooks return
EventList(w, event_buffer, x, h) ==
    IF x > Len(event_buffer)
    THEN [w |-> w, exc |-> NoExc, items |-> <<>>]
    ELSE LET one == _eventToPython(w, event_buffer[x],
                                   IF h.at = x THEN h.does ELSE HookReturns)
         IN  IF one.exc # NoExc
             THEN [w |-> one.w, exc |-> one.exc, items |-> <<>>]
             ELSE LET rest == EventList(one.w, event_buffer, x + 1, h)
                  IN  [rest EXCEPT !.items = one.value.items \o rest.items]

\* if min_nr is None: min_nr = len(self._submitted)
EffectiveMinNr(min_nr) == IF min_nr = NoneV THEN Len(_submitted) ELSE min_nr

\* a default maximum that is the capacity given at construction alone
EffectiveNrCapacity(nr) == IF nr = NoneV THEN Maxevents ELSE nr

\* if nr is None: nr = max(len(self._submitted), self._maxevents)
EffectiveNr(nr) == IF nr = NoneV THEN Max(Len(_submitted), Maxevents) ELSE nr

\* io_getevents answered with an error
GetEventsRaise(e) ==
    /\ kans' = 0 - e
    /\ kev' = <<>>
    /\ exc' = _raise_on_negative(0 - e)
    /\ ret' = NoRet
    /\ calls' = <<>>
    /\ hooks' = <<>>
    /\ kcalls' = 1
    /\ UNCHANGED <<_submitted, kept, kmem, accepted, inflight, ring, reaped,
                   hooked>>

\* io_getevents handed over the first actual_nr records of the ring
GetEventsReap(actual_nr, h) ==
    LET event_buffer == SubSeq(ring, 1, actual_nr)
        done == EventList(World, event_buffer, 1, h)
    IN  /\ kans' = actual_nr
        /\ kev' = event_buffer
        /\ ring' = SubSeq(ring, actual_nr + 1, Len(ring))
        /\ reaped' = reaped \cup {event_buffer[x].sid : x \in 1..actual_nr}
        /\ _submitted' = done.w.submitted
        /\ hooked' = done.w.hooked
        /\ calls' = done.w.calls
        /\ hooks' = done.w.hooks
        /\ accepted' = done.w.accepted
        /\ kept' = done.w.kept
        /\ kmem' = done.w.kmem
        /\ inflight' = done.w.inflight
        /\ kcalls' = 1 + done.w.kcalls
        /\ exc' = done.exc
        /\ ret' = IF done.exc = NoExc THEN RetList(done.items) ELSE NoRet

\* the triples of the calls in which a hook submits its block again
ResubmittingCalls == {<<NoneV, NoneV, NoneV>>, <<1, 2, NoneV>>}

\* a getEvents call, given one of the triples in given, in which at most one hook
\* does one of the things in does
GetEventsCall(given, does) ==
    \E call \in given :
        LET min_nr == call[1]
            nr == call[2]
            timeout == call[3]
            m == EffectiveMinNr(min_nr)
            n == EffectiveNr(nr)
        IN  /\ ~InitFailed
            /\ op' = "getEvents"
            /\ arg' = call
            /\ before' = _submitted
            /\ kargs' = <<m, n>>
            /\ IF ctx = "none" \/ m > n
               THEN GetEventsRaise(EINVAL)
               ELSE /\ timeout = NoneV => Len(ring) >= m
                    /\ \E at \in 0..Min(n, Len(ring)), d \in does :
                          GetEventsReap(Min(n, Len(ring)),
                                        [at |-> at, does |-> d])
            /\ UNCHANGED <<ctx, bufs, deferred, released, blk, bcall, abi>>

\* hooks that return or raise
GetEvents == GetEventsCall(GetEventsCalls, {HookRaises})

\* one hook submits its own block again
GetEventsResubmitting ==
    /\ Len(accepted) < MaxSubmissions + MaxResubmissions
    /\ GetEventsCall(ResubmittingCalls, {HookSubmits})

\* ---- AIOContext.cancel ----------------------------------------------------
\* what io_cancel may return
CancelAnswers == {0, 0 - EINPROGRESS, 0 - EAGAIN, 0 - EINVAL}

\* requests in flight for this block's iocb
Candidates(w, block) == {sid \in w.inflight : w.accepted[sid] = block}

\* the request the kernel finds for the iocb (0: none)
Found(w, block, newest) ==
    LET c == Candidates(w, block)
    IN  IF c = {} THEN 0
        ELSE IF newest THEN CHOOSE sid \in c : \A o \in c : o <= sid
        ELSE CHOOSE sid \in c : \A o \in c : sid <= o

\* An answer other than EINVAL needs a request in flight for the iocb.
AnswerPossible(w, block, answer) ==
    answer # 0 - EINVAL => Candidates(w, block) # {}

\* kernel side of io_cancel(ctx, iocb, event): answer 0 removes the request
\* and fills the event with r; EINPROGRESS leaves it to complete later; EINVAL
\* with a request in flight is the race in which it completed just before.
io_cancel(w, block, answer, r, newest) ==
    LET sid == Found(w, block, newest)
        event == [sid |-> sid, obj |-> block, res |-> r[1], res2 |-> r[2]]
        called == [w EXCEPT !.kcalls = @ + 1]
    IN  IF sid = 0 THEN called
        ELSE IF answer = 0
        THEN [called EXCEPT !.inflight = @ \ {sid}, !.reaped = @ \cup {sid},
                            !.kev = Append(@, event)]
        ELSE IF answer = 0 - EINPROGRESS
        THEN [called EXCEPT !.deferred = @ \cup {sid}]
        ELSE IF answer = 0 - EINVAL
        THEN [called EXCEPT !.inflight = @ \ {sid}, !.ring = Append(@, event)]
        ELSE called

\* AIOContext.cancel(block) on the kernel's answer
cancel(w, block, answer, r, newest, hook) ==
    LET k == io_cancel(w, block, answer, r, newest)
        e == _raise_on_negative(answer)
    IN  IF e.type = "OSError"
        THEN IF e.errno = EINPROGRESS
             THEN [w |-> k, exc |-> NoExc, value |-> RetNone]
             ELSE [w |-> k, exc |-> e, value |-> NoRet]
        ELSE _eventToPython(k, k.kev[Len(k.kev)], hook)

\* the part of the state a call on the context may change
Install(w) ==
    /\ _submitted' = w.submitted
    /\ hooked' = w.hooked
    /\ calls' = w.calls
    /\ hooks' = w.hooks
    /\ accepted' = w.accepted
    /\ kept' = w.kept
    /\ kmem' = w.kmem
    /\ inflight' = w.inflight
    /\ ring' = w.ring
    /\ deferred' = w.deferred
    /\ reaped' = w.reaped
    /\ kcalls' = w.kcalls
    /\ kev' = w.kev

\* a cancel call whose hook, if it runs, returns or does one of the things in does
CancelCall(does) ==
    \E block \in Blocks, answer \in CancelAnswers, r \in Results,
       newest \in BOOLEAN, hook \in {HookReturns} \cup does :
        /\ ~InitFailed
        /\ AnswerPossible(World, block, answer)
        \* a request that completes just before the call is KernelComplete
        /\ (answer = 0 - EINVAL => Candidates(World, block) = {})
        \* choices the answer makes no use of are not enumerated twice
        /\ (answer # 0 => hook = HookReturns)
        /\ (answer # 0 => r = <<4, 0>>)
        /\ (Cardinality(Candidates(World, block)) < 2 => ~newest)
        /\ LET done == cancel(World, block, answer, r, newest, hook)
           IN  /\ Install(done.w)
               /\ exc' = done.exc
               /\ ret' = done.value
        /\ op' = "cancel"
        /\ arg' = <<block>>
        /\ before' = _submitted
        /\ kargs' = <<>>
        /\ kans' = answer
        /\ UNCHANGED <<ctx, bufs, released, blk, bcall, abi>>

\* a hook that returns or raises
Cancel == CancelCall({HookRaises})

\* a hook that submits its own block again
CancelResubmitting ==
    /\ Len(accepted) < MaxSubmissions + MaxResubmissions
    /\ CancelCall({HookSubmits})

\* ---- AIOContext.cancelAll -------------------------------------------------
\* an element of the result list: None or the tuple
ListItem(value) == IF value.kind = "None" THEN <<>> ELSE value.items[1]

RECURSIVE CancelAllFrom(_, _, _, _)
\* for block, _ in self._submitted.values(): ..., from the i-th value on.
\* values: the table's blocks when the loop starts.  o.live: values() is a
\* view of the dict (Python 3), which refuses to go on once the dict changed
\* size; otherwise it is a list built before the loop (Python 2).
\* o.answers[i]: io_cancel's answer for the i-th value; o.h: the position whose
\* hook raises.  ok: the answers are ones the kernel can give.
CancelAllFrom(w, values, i, o) ==
    IF o.live /\ Len(w.submitted) # Len(values)
    THEN [w |-> w, exc |-> RuntimeError, items |-> <<>>, ok |-> TRUE]
    ELSE IF i > Len(values)
    THEN [w |-> w, exc |-> NoExc, items |-> <<>>, ok |-> TRUE]
    ELSE IF ~AnswerPossible(w, values[i], o.answers[i])
    THEN [w |-> w, exc |-> NoExc, items |-> <<>>, ok |-> FALSE]
    ELSE LET one == cancel(w, values[i], o.answers[i], o.r, o.newest,
                           IF o.h = i THEN HookRaises ELSE HookReturns)
         IN  IF one.exc = NoExc
             THEN LET rest == CancelAllFrom(one.w, values, i + 1, o)
                  IN  [rest EXCEPT !.items = <<ListItem(one.value)>> \o @]
             ELSE IF one.exc.type = "OSError" /\ one.exc.errno = EINVAL
             THEN CancelAllFrom(one.w, values, i + 1, o)
             ELSE [w |-> one.w, exc |-> one.exc, items |-> <<>>, ok |-> TRUE]

CancelAll ==
    \E live \in BOOLEAN, answers \in [1..Len(_submitted) -> CancelAnswers],
       r \in Results, h \in 0..Len(_submitted), newest \in BOOLEAN :
        LET o == [live |-> live, answers |-> answers, r |-> r, h |-> h,
                  newest |-> newest]
            done == CancelAllFrom(World, _submitted, 1, o)
        IN  /\ ~InitFailed
            \* choices the answers make no use of are not enumerated twice
            /\ (h # 0 => answers[h] = 0)
            /\ ((\A i \in DOMAIN answers : answers[i] # 0) => live)
            /\ ((\A i \in DOMAIN answers :
                    answers[i] \in {0 - EINPROGRESS, 0 - EAGAIN}) => r = <<4, 0>>)
            /\ ((\A b \in Blocks : Cardinality(Candidates(World, b)) < 2)
                    => ~newest)
            /\ done.ok
            /\ Install(done.w)
            /\ exc' = done.exc
            /\ ret' = IF done.exc = NoExc THEN RetList(done.items) ELSE NoRet
            /\ op' = "cancelAll"
            /\ before' = _submitted
            /\ arg' = <<IF live THEN 3 ELSE 2>>
            /\ kargs' = <<>>
            /\ kans' = 0
            /\ UNCHANGED <<ctx, bufs, released, blk, bcall, abi>>

\* ---- AIOContext.close -----------------------------------------------------
\* what io_queue_release may return
ReleaseAnswers == {0, 0 - EINVAL}

\* a close that does not look at self._ctx
CloseReleasesAlways == TRUE

\* if self._ctx is not None
CloseReleases == ctx # "none"

\* close is called directly, by __exit__ or by __del__
CloseEntries == {"close", "__exit__", "__del__"}

\* the exception the body of a with statement raised
BodyError == [type |-> "BodyError", errno |-> 0]

\* an __exit__ that reports the body's exception as handled
__exit__Suppressing(closed) == RetInt(1)

\* __exit__ calls close and has no return statement
__exit__(closed) == RetNone

\* bool(value) of a returned value
Truthy(r) == r.kind = "int" /\ r.n # 0

\* the exception that leaves a with statement: the one __exit__ raised, or the
\* body's own unless __exit__ returned a true value
WithLeaves(exc_type, exit_value, exit_exc) ==
    IF exit_exc # NoExc THEN exit_exc
    ELSE IF exc_type = 1 /\ ~Truthy(exit_value) THEN BodyError
    ELSE NoExc

Close ==
    /\ op' \in CloseEntries
    /\ (InitFailed => op' = "__del__")
    \* __exit__ is given exc_type: 1 when the body raised, 0 for None
    /\ arg' \in IF op' = "__exit__" THEN {<<0>>, <<1>>} ELSE {<<>>}
    /\ before' = _submitted
    /\ kargs' = <<>>
    /\ kev' = <<>>
    /\ calls' = <<>>
    /\ hooks' = <<>>
    /\ IF CloseReleases
       THEN \E answer \in ReleaseAnswers :
              /\ released < MaxRelease
              /\ released' = released + 1
              /\ kcalls' = 1
              /\ kans' = answer
              /\ exc' = _raise_on_negative(answer)
              /\ IF answer = 0
                 THEN /\ ctx' = "none" /\ inflight' = {} /\ ring' = <<>>
                      /\ ret' = IF op' = "__exit__" THEN __exit__(RetNone)
                                                   ELSE RetNone
                 ELSE /\ UNCHANGED <<ctx, inflight, ring>>
                      /\ ret' = NoRet
       ELSE /\ kcalls' = 0
            /\ kans' = 0
            /\ exc' = NoExc
            /\ ret' = IF op' = "__exit__" THEN __exit__(RetNone) ELSE RetNone
            /\ UNCHANGED <<ctx, inflight, ring, released>>
    /\ UNCHANGED <<_submitted, kept, bufs, kmem, accepted, deferred, reaped,
                   hooked, blk, bcall, abi>>

\* ==== AIOBlock ===============================================================
\* ---- libaio.py: opcodes and flag bits ---------------------------------------
IO_CMD_PREAD == 0
IO_CMD_FSYNC == 2
IO_CMD_FDSYNC == 3
IO_CMD_POLL == 5
IO_CMD_PREADV == 7
IO_CMD_PWRITEV == 8
IOCB_FLAG_RESFD == 1
IOCB_FLAG_IOPRIO == 2

\* flags & bit, flags |= bit, flags &= ~bit, for a one-bit mask
HasFlag(flags, bit) == (flags \div bit) % 2 = 1

SetFlag(flags, bit) == IF HasFlag(flags, bit) THEN flags ELSE flags + bit

ClearFlag(flags, bit) == IF HasFlag(flags, bit) THEN flags - bit ELSE flags

\* ---- Python values ------------------------------------------------------------
AttributeError == [type |-> "AttributeError", errno |-> 0]

\* an attribute holding None, or a tuple
NoTuple == [some |-> FALSE, v |-> <<>>]

Tuple(t) == [some |-> TRUE, v |-> t]

\* objects given as target_file or eventfd: None, an object with fileno(), or
\* a bare file descriptor; and the function eventfd imported by the module
PyNone == [kind |-> "None", fd |-> 0]

FileObject(fd) == [kind |-> "object", fd |-> fd]

BareFd(fd) == [kind |-> "int", fd |-> fd]

eventfd == [kind |-> "function", fd |-> 0]

\* getattr(value, 'fileno', lambda: value)()
Fileno(value) == value.fd

\* the AIOBLOCK_MODE_* objects a block is given
Modes == {"READ", "FSYNC", "POLL"}

_AIOBLOCK_MODE_DICT(mode) ==
    CASE mode = "READ" -> IO_CMD_PREADV
      [] mode = "WRITE" -> IO_CMD_PWRITEV
      [] mode = "FSYNC" -> IO_CMD_FSYNC
      [] mode = "FDSYNC" -> IO_CMD_FDSYNC
      [] mode = "POLL" -> IO_CMD_POLL

\* buffers: an address and a length
Buffers == {[base |-> 1, len |-> 4], [base |-> 2, len |-> 8]}

\* u.c.buf: NULL, the address of self._iovec, or an integer cast to a pointer
NullPtr == [kind |-> "NULL", v |-> 0]

IovecPtr == [kind |-> "iovec", v |-> 0]

\* c_void_p(value)
c_void_p(value) == IF value = 0 THEN NullPtr ELSE [kind |-> "int", v |-> value]

\* (libaio.iovec * buffer_count)(*[libaio.iovec(address, length) ...])
Iovec(buffer_list) ==
    [i \in DOMAIN buffer_list |->
        [iov_base |-> buffer_list[i].base, iov_len |-> buffer_list[i].len]]

\* a value stored in the c_short field aio_reqprio
c_short(v) == ((v + 32768) % 65536) - 32768

\* libaio.iocb() zeroed, and the class attributes of AIOBlock
ZeroBlock ==
    [aio_lio_opcode |-> IO_CMD_PREAD, aio_fildes |-> 0, aio_reqprio |-> 0,
     aio_rw_flags |-> 0, buf |-> NullPtr, nbytes |-> 0, offset |-> 0,
     flags |-> 0, resfd |-> 0,
     _buffer_list |-> NoTuple, _iovec |-> NoTuple, _file |-> PyNone,
     _eventfd |-> PyNone, _onCompletion |-> "None"]

\* ---- AIOBlock property setters: the block after the call, and the exception --
Done(b) == [b |-> b, exc |-> NoExc]

Raised(b, e) == [b |-> b, exc |-> e]

\* the next statement's outcome, unless the one before raised
Then(r, next) == IF r.exc # NoExc THEN r ELSE next

\* a property read: the value returned, or the exception raised
Returned(v) == [exc |-> NoExc, v |-> v]

Failed(e) == [exc |-> e, v |-> PyNone]

target_file_setter(b, value) ==
    Done([b EXCEPT !._file = value,
                   !.aio_fildes = IF value = PyNone THEN 0 ELSE Fileno(value)])

\* a buffer_list setter that checks the mode after it has stored the buffers
buffer_list_setter_late(b, value) ==
    LET buffer_count == Len(value)
        stored == [b EXCEPT
            !.nbytes = buffer_count,
            !._iovec = IF buffer_count > 0 THEN Tuple(Iovec(value)) ELSE NoTuple,
            !.buf = IF buffer_count > 0 THEN IovecPtr ELSE NullPtr,
            !._buffer_list = Tuple(value)]
    IN  IF b.aio_lio_opcode = IO_CMD_POLL
        THEN Raised(stored, AttributeError)
        ELSE Done(stored)

buffer_list_setter(b, value) ==
    IF b.aio_lio_opcode = IO_CMD_POLL
    THEN Raised(b, AttributeError)
    ELSE LET buffer_count == Len(value)
         IN  Done([b EXCEPT
                 !.nbytes = buffer_count,
                 !._iovec = IF buffer_count > 0 THEN Tuple(Iovec(value))
                            ELSE NoTuple,
                 !.buf = IF buffer_count > 0 THEN IovecPtr ELSE NullPtr,
                 !._buffer_list = Tuple(value)])

event_mask_setter(b, value) ==
    IF b.aio_lio_opcode # IO_CMD_POLL
    THEN Raised(b, AttributeError)
    ELSE Done([b EXCEPT !.buf = c_void_p(value)])

\* the buf field reads back as an int or None, which has no attribute value
event_mask_getter(b) ==
    IF b.aio_lio_opcode # IO_CMD_POLL
    THEN Failed(AttributeError)
    ELSE Failed(AttributeError)

\* the offset field reads back as an int, which has no attribute value
offset_getter(b) == Failed(AttributeError)

offset_setter(b, value) == Done([b EXCEPT !.offset = value])

onCompletion_setter(b, value) == Done([b EXCEPT !._onCompletion = value])

\* None is read when the IOPRIO flag is clear, whatever the priority field holds
io_priority_getter(b) ==
    IF HasFlag(b.flags, IOCB_FLAG_IOPRIO) THEN b.aio_reqprio ELSE NoneV

\* a setter whose None branch drops every flag of the control block
io_priority_setter_allflags(b, value) ==
    IF value = NoneV
    THEN Done([b EXCEPT !.flags = 0, !.aio_reqprio = 0])
    ELSE Done([b EXCEPT !.flags = SetFlag(@, IOCB_FLAG_IOPRIO),
                        !.aio_reqprio = c_short(value)])

io_priority_setter(b, value) ==
    IF value = NoneV
    THEN Done([b EXCEPT !.flags = ClearFlag(@, IOCB_FLAG_IOPRIO),
                        !.aio_reqprio = 0])
    ELSE Done([b EXCEPT !.flags = SetFlag(@, IOCB_FLAG_IOPRIO),
                        !.aio_reqprio = c_short(value)])

rw_flags_setter(b, value) ==
    IF b.aio_lio_opcode = IO_CMD_POLL
    THEN Raised(b, AttributeError)
    ELSE Done([b EXCEPT !.aio_rw_flags = value])

\* the last statement stores the module's name eventfd, not the argument
eventfd_setter(b, value) ==
    LET iocb == IF value = PyNone
                THEN [b EXCEPT !.flags = ClearFlag(@, IOCB_FLAG_RESFD),
                               !.resfd = 0]
                ELSE [b EXCEPT !.flags = SetFlag(@, IOCB_FLAG_RESFD),
                               !.resfd = Fileno(value)]
    IN  Done([iocb EXCEPT !._eventfd = eventfd])

eventfd_getter(b) == b._eventfd

mode_setter(b, value) ==
    LET old_opcode == b.aio_lio_opcode
        new_opcode == _AIOBLOCK_MODE_DICT(value)
        buffers == buffer_list_setter(b, <<>>)
        offset == Then(buffers, offset_setter(buffers.b, 0))
        rw_flags == Then(offset, rw_flags_setter(offset.b, 0))
        cleared ==
            IF old_opcode = new_opcode THEN Done(b)
            ELSE IF new_opcode = IO_CMD_POLL THEN rw_flags
            ELSE IF old_opcode = IO_CMD_POLL THEN event_mask_setter(b, 0)
            ELSE Done(b)
    IN  Then(cleared, Done([cleared.b EXCEPT !.aio_lio_opcode = new_opcode]))

\* ---- AIOBlock.__init__ ----------------------------------------------------------
\* a: the constructor's arguments
AIOBlock(a) ==
    LET mode == mode_setter(ZeroBlock, a.mode)
        target_file == Then(mode, target_file_setter(mode.b, a.target_file))
        io_priority ==
            Then(target_file, io_priority_setter(target_file.b, a.io_priority))
        event_mask ==
            Then(io_priority, event_mask_setter(io_priority.b, a.event_mask))
        buffer_list ==
            Then(io_priority, buffer_list_setter(io_priority.b, a.buffer_list))
        offset == Then(buffer_list, offset_setter(buffer_list.b, a.offset))
        rw_flags == Then(offset, rw_flags_setter(offset.b, a.rw_flags))
        kind == IF a.mode = "POLL" THEN event_mask ELSE rw_flags
        eventfd_ == Then(kind, eventfd_setter(kind.b, a.eventfd))
    IN  Then(eventfd_, onCompletion_setter(eventfd_.b, a.onCompletion))

\* ---- values the block's attributes are given ------------------------------------
BufferLists ==
    {<<>>, <<[base |-> 1, len |-> 4]>>,
     <<[base |-> 1, len |-> 4], [base |-> 2, len |-> 8]>>}

Offsets == {0, 4096}

RwFlags == {0, 1}

EventMasks == {0, 1}

\* None, the value test.py assigns, IOPRIO_PRIO_VALUE(IOPRIO_CLASS_BE, 4)
Priorities == {NoneV, 1, 16388}

TargetFiles == {PyNone, FileObject(3)}

EventfdValues == {PyNone, FileObject(5), BareFd(6)}

Hooks == {"hook"}

InitArgs ==
    [mode : Modes, target_file : {FileObject(3)}, buffer_list : BufferLists,
     offset : Offsets, eventfd : EventfdValues, onCompletion : {"default"},
     rw_flags : RwFlags, io_priority : Priorities, event_mask : EventMasks]

\* ---- calls on the block -----------------------------------------------------------
\* the call named name, given value, ended as r says
BlockCall(name, value, r) ==
    /\ blk' = r.b
    /\ bcall' = [op |-> name, value |-> value, exc |-> r.exc, before |-> blk]
    /\ UNCHANGED <<cvars, abi>>

Constructed == bcall.op # "none"

Construct ==
    /\ ~Constructed
    /\ \E a \in InitArgs : BlockCall("__init__", a, AIOBlock(a))

SetMode ==
    /\ Constructed
    /\ \E value \in Modes : BlockCall("mode", value, mode_setter(blk, value))

SetTargetFile ==
    /\ Constructed
    /\ \E value \in TargetFiles :
          BlockCall("target_file", value, target_file_setter(blk, value))

SetBufferList ==
    /\ Constructed
    /\ \E value \in BufferLists :
          BlockCall("buffer_list", value, buffer_list_setter(blk, value))

SetEventMask ==
    /\ Constructed
    /\ \E value \in EventMasks :
          BlockCall("event_mask", value, event_mask_setter(blk, value))

SetOffset ==
    /\ Constructed
    /\ \E value \in Offsets : BlockCall("offset", value, offset_setter(blk, value))

SetOnCompletion ==
    /\ Constructed
    /\ \E value \in Hooks :
          BlockCall("onCompletion", value, onCompletion_setter(blk, value))

SetIoPriority ==
    /\ Constructed
    /\ \E value \in Priorities :
          BlockCall("io_priority", value, io_priority_setter(blk, value))

SetRwFlags ==
    /\ Constructed
    /\ \E value \in RwFlags :
          BlockCall("rw_flags", value, rw_flags_setter(blk, value))

SetEventfd ==
    /\ Constructed
    /\ \E value \in EventfdValues :
          BlockCall("eventfd", value, eventfd_setter(blk, value))

\* a property read leaves the block as it is
BlockRead(name, g) == BlockCall(name, g.v, [b |-> blk, exc |-> g.exc])

GetOffset ==
    /\ Constructed
    /\ BlockRead("offset (read)", offset_getter(blk))

GetEventMask ==
    /\ Constructed
    /\ BlockRead("event_mask (read)", event_mask_getter(blk))

\* ---- ioprio.py ---------------------------------------------------------------------
IOPRIO_CLASS_SHIFT == 13
IOPRIO_CLASS_RT == 1
IOPRIO_CLASS_BE == 2
IOPRIO_CLASS_IDLE == 3

\* a << n
ShiftLeft(a, n) == a * (2 ^ n)

RECURSIVE BitOr(_, _)
\* a | b, bit by bit
BitOr(a, b) ==
    IF a = 0 THEN b
    ELSE IF b = 0 THEN a
    ELSE 2 * BitOr(a \div 2, b \div 2) + Max(a % 2, b % 2)

\* a priority value whose class starts one bit higher
IOPRIO_PRIO_VALUE_Wide(klass, data) ==
    BitOr(ShiftLeft(klass, IOPRIO_CLASS_SHIFT + 1), data)

IOPRIO_PRIO_VALUE(klass, data) ==
    BitOr(ShiftLeft(klass, IOPRIO_CLASS_SHIFT), data)

\* the classes and the data a priority value is built from
PrioClasses == {IOPRIO_CLASS_RT, IOPRIO_CLASS_BE, IOPRIO_CLASS_IDLE}

PrioData == 0..(2 ^ IOPRIO_CLASS_SHIFT - 1)

\* AIOBlock(AIOBLOCK_MODE_READ, target_file), everything else left at its default
PlainArgs ==
    [mode |-> "READ", target_file |-> FileObject(3), buffer_list |-> <<>>,
     offset |-> 0, eventfd |-> PyNone, onCompletion |-> "default",
     rw_flags |-> 0, io_priority |-> NoneV, event_mask |-> 0]

ConstructPlain ==
    /\ ~Constructed
    /\ BlockCall("__init__", PlainArgs, AIOBlock(PlainArgs))

\* block.io_priority = IOPRIO_PRIO_VALUE(klass, data), on the new block
AssignPrioValue ==
    /\ bcall.op = "__init__"
    /\ \E klass \in PrioClasses, data \in PrioData :
          LET value == IOPRIO_PRIO_VALUE(klass, data)
          IN  BlockCall("io_priority = IOPRIO_PRIO_VALUE",
                        [klass |-> klass, data |-> data, priority |-> value],
                        io_priority_setter(blk, value))

\* block.buffer_list = ... on a block the context may hold: the setter builds a
\* new tuple and a new iovec array and lets go of the ones before
AssignBufferList ==
    \E block \in Blocks :
        /\ bufs[block] < MaxBufferLists
        /\ bufs' = [bufs EXCEPT ![block] = @ + 1]
        /\ UNCHANGED <<ctx, _submitted, kept, kmem, accepted, inflight, ring,
                       deferred, reaped, hooked, released, before, calls, hooks,
                       op, arg, kcalls, kargs, kans, kev, ret, exc, blk, bcall, abi>>

\* no call was made on the block yet
NoCall == [op |-> "none", value |-> PyNone, exc |-> NoExc, before |-> ZeroBlock]

\* ==== libaio.py: structure layouts ===========================================
\* ---- the builds the PADDED table tells apart --------------------------------
\* long: sizeof(c_ulong); order: sys.byteorder; wide: the alignment the build
\* gives to 8-byte integers (4 on i386, 8 elsewhere)
Variants ==
    {[long |-> 8, order |-> o, wide |-> 8] : o \in {"little", "big"}}
        \cup {[long |-> 4, order |-> o, wide |-> a] :
                 o \in {"little", "big"}, a \in {4, 8}}

\* the build the context and the block above run on
Native == [long |-> 8, order |-> "little", wide |-> 8]

\* an entry of _fields_
Field(name, type) == [name |-> name, type |-> type]

\* a PADDED that puts the field first on every build
PADDEDFieldFirst(v, w, x, y) ==
    IF v.long = 4 THEN <<Field(x, w), Field(y, "c_uint")>>
    ELSE <<Field(x, w), Field(y, w)>>

PADDED(v, w, x, y) ==
    IF v.order = "big" THEN <<Field(y, "c_uint"), Field(x, w)>>
    ELSE IF v.long = 4 THEN <<Field(x, w), Field(y, "c_uint")>>
    ELSE <<Field(x, w), Field(y, w)>>

PADDEDptr(v, w, x, y) ==
    IF v.long = 8 THEN <<Field(x, w)>>
    ELSE IF v.order = "big" THEN <<Field(y, "c_uint"), Field(x, w)>>
    ELSE <<Field(x, w), Field(y, "c_uint")>>

PADDEDul(v, x, y) ==
    IF v.long = 8 THEN <<Field(x, "c_ulong")>>
    ELSE IF v.order = "big" THEN <<Field(y, "c_uint"), Field(x, "c_ulong")>>
    ELSE <<Field(x, "c_ulong"), Field(y, "c_uint")>>

\* res and res2 declared unsigned, as libaio's header has them
PADDEDlUnsigned(v, x, y) == PADDEDul(v, x, y)

PADDEDl(v, x, y) ==
    IF v.long = 8 THEN <<Field(x, "c_long")>>
    ELSE IF v.order = "big" THEN <<Field(y, "c_uint"), Field(x, "c_long")>>
    ELSE <<Field(x, "c_long"), Field(y, "c_uint")>>

\* ---- the structures ------------------------------------------------------------
io_iocb_poll(v) == PADDED(v, "c_int", "events", "__pad1")

io_iocb_sockaddr(v) == <<Field("addr", "POINTER"), Field("len", "c_int")>>

io_iocb_common(v) ==
    PADDEDptr(v, "c_void_p", "buf", "__pad1")
        \o PADDEDul(v, "nbytes", "__pad2")
        \o <<Field("offset", "c_longlong"), Field("__pad3", "c_longlong"),
             Field("flags", "c_uint"), Field("resfd", "c_uint")>>

io_iocb_vector(v) ==
    <<Field("vec", "POINTER"), Field("nr", "c_int"),
      Field("offset", "c_longlong")>>

\* the _fields_ of the union u
_iocb_u(v) ==
    {io_iocb_common(v), io_iocb_vector(v), io_iocb_poll(v), io_iocb_sockaddr(v)}

iocb(v) ==
    PADDEDptr(v, "c_void_p", "data", "__pad1")
        \o PADDED(v, "c_uint", "key", "aio_rw_flags")
        \o <<Field("aio_lio_opcode", "c_short"), Field("aio_reqprio", "c_short"),
             Field("aio_fildes", "c_int"), Field("u", "_iocb_u")>>

io_event(v) ==
    PADDEDptr(v, "c_void_p", "data", "__pad1")
        \o PADDEDptr(v, "POINTER", "obj", "__pad2")
        \o PADDEDl(v, "res", "__pad3")
        \o PADDEDl(v, "res2", "__pad4")

\* ---- ctypes: sizes, alignments and offsets -----------------------------------
Pointers == {"c_void_p", "POINTER"}

Longs == {"c_ulong", "c_long"}

SignedTypes == {"c_long", "c_int", "c_short", "c_longlong"}

MaxOf(S) == CHOOSE x \in S : \A y \in S : y <= x

\* n rounded up to a multiple of a
AlignUp(n, a) == ((n + a - 1) \div a) * a

RECURSIVE sizeof(_, _), alignment(_, _), End(_, _, _)
\* the offset just behind the k-th field
End(fields, k, v) ==
    IF k = 0 THEN 0
    ELSE AlignUp(End(fields, k - 1, v), alignment(fields[k].type, v))
            + sizeof(fields[k].type, v)

StructAlign(fields, v) ==
    MaxOf({alignment(fields[k].type, v) : k \in DOMAIN fields})

StructSize(fields, v) ==
    AlignUp(End(fields, Len(fields), v), StructAlign(fields, v))

alignment(type, v) ==
    IF type = "_iocb_u" THEN MaxOf({StructAlign(m, v) : m \in _iocb_u(v)})
    ELSE IF sizeof(type, v) = 8 THEN v.wide
    ELSE sizeof(type, v)

sizeof(type, v) ==
    IF type = "_iocb_u"
    THEN AlignUp(MaxOf({StructSize(m, v) : m \in _iocb_u(v)}),
                 alignment(type, v))
    ELSE IF type \in Pointers \cup Longs THEN v.long
    ELSE IF type = "c_longlong" THEN 8
    ELSE IF type = "c_short" THEN 2
    ELSE 4

\* the position of the field called name
FieldIndex(fields, name) == CHOOSE k \in DOMAIN fields : fields[k].name = name

offsetof(fields, name, v) ==
    LET k == FieldIndex(fields, name)
    IN  AlignUp(End(fields, k - 1, v), alignment(fields[k].type, v))

FieldType(fields, name) == fields[FieldIndex(fields, name)].type

\* ---- memory: bytes in the build's order ----------------------------------------
\* the largest integer of the model; a value past it reads as TooLarge
TooLarge == 2147483647

\* byte k (0: least significant) of the 8-byte two's complement of value
ByteOf(value, k) ==
    LET low(n) == IF k >= 4 THEN 0 ELSE (n \div (256 ^ k)) % 256
    IN  IF value >= 0 THEN low(value) ELSE 255 - low((0 - value) - 1)

RECURSIVE Unsigned(_)
\* the number whose bytes, least significant first, are digits
Unsigned(digits) ==
    IF digits = <<>> THEN 0
    ELSE LET high == Unsigned(Tail(digits))
         IN  IF high > (TooLarge - Head(digits)) \div 256 THEN TooLarge
             ELSE high * 256 + Head(digits)

\* the same bytes read as a two's complement number
Signed(digits) ==
    IF digits[Len(digits)] >= 128
    THEN 0 - (1 + Unsigned([k \in DOMAIN digits |-> 255 - digits[k]]))
    ELSE Unsigned(digits)

\* the 8 bytes of a 64-bit value as they lie in memory
Stored64(value, v) ==
    [i \in 1..8 |-> ByteOf(value, IF v.order = "little" THEN i - 1 ELSE 8 - i)]

\* what ctypes returns for the field name of a structure lying in memory
ReadField(memory, fields, name, v) ==
    LET at == offsetof(fields, name, v)
        size == sizeof(FieldType(fields, name), v)
        digits == [k \in 1..size |->
                      IF v.order = "little" THEN memory[at + k]
                      ELSE memory[at + size + 1 - k]]
    IN  IF FieldType(fields, name) \in SignedTypes THEN Signed(digits)
        ELSE Unsigned(digits)

\* ---- the kernel fills an io_event, Python reads it --------------------------------
\* res values of the kernel: -ECANCELED, -EINVAL, -EPERM, nothing or 4 bytes done
KernelResults == {-125, -22, -1, 0, 4}

\* the address of the iocb the record is about
IocbAddress == 4096

NoEvent == [some |-> FALSE, res |-> 0, res2 |-> 0]

\* struct io_event of the kernel ABI: data, obj, res, res2, 64 bits each
KernelEvent(data, obj, res, res2, v) ==
    Stored64(data, v) \o Stored64(obj, v) \o Stored64(res, v) \o Stored64(res2, v)

InitAbi(v) ==
    [plat |-> v, event |-> KernelEvent(0, 0, 0, 0, v), wrote |-> NoEvent,
     got |-> NoEvent]

\* io_getevents / io_cancel: the kernel writes a completion record
FillEvent ==
    /\ \E res \in KernelResults, res2 \in KernelResults :
          abi' = [abi EXCEPT
                     !.event = KernelEvent(0, IocbAddress, res, res2, abi.plat),
                     !.wrote = [some |-> TRUE, res |-> res, res2 |-> res2],
                     !.got = NoEvent]
    /\ UNCHANGED <<cvars, blk, bcall>>

\* _eventToPython: event.res, event.res2
ReadEvent ==
    /\ abi.wrote.some
    /\ ~abi.got.some
    /\ abi' = [abi EXCEPT !.got =
                  [some |-> TRUE,
                   res |-> ReadField(abi.event, io_event(abi.plat), "res",
                                     abi.plat),
                   res2 |-> ReadField(abi.event, io_event(abi.plat), "res2",
                                      abi.plat)]]
    /\ UNCHANGED <<cvars, blk, bcall>>

\* ---- initial state: AIOContext(maxevents) constructed ----------------------
\* the context and the block
InitObjects ==
    /\ kans \in InitAnswers
    /\ ctx = IF kans = 0 THEN "open" ELSE "none"
    /\ exc = _raise_on_negative(kans)
    /\ ret = IF kans = 0 THEN RetNone ELSE NoRet
    /\ _submitted = <<>>
    /\ kept = [b \in Blocks |-> NoState]
    /\ bufs = [b \in Blocks |-> 1]
    /\ kmem = <<>>
    /\ accepted = <<>>
    /\ inflight = {}
    /\ ring = <<>>
    /\ deferred = {}
    /\ reaped = {}
    /\ hooked = [sid \in 1..(MaxSubmissions + MaxResubmissions) |-> 0]
    /\ released = 0
    /\ before = <<>>
    /\ calls = <<>>
    /\ hooks = <<>>
    /\ op = "init"
    /\ arg = <<>>
    /\ kcalls = 1
    /\ kargs = <<>>
    /\ kev = <<>>
    /\ blk = ZeroBlock
    /\ bcall = NoCall

Init == InitObjects /\ abi = InitAbi(Native)

\* the same objects on any of the builds
InitLayout == InitObjects /\ \E v \in Variants : abi = InitAbi(v)

Next ==
    \/ KernelComplete
    \/ Submit
    \/ GetEvents
    \/ Cancel
    \/ CancelAll
    \/ Close

Spec == Init /\ [][Next]_vars

\* ---- an AIOBlock on its own: construction, then any property assignments --------
NextBlock ==
    \/ Construct
    \/ GetOffset
    \/ GetEventMask
    \/ SetMode
    \/ SetTargetFile
    \/ SetBufferList
    \/ SetEventMask
    \/ SetOffset
    \/ SetOnCompletion
    \/ SetIoPriority
    \/ SetRwFlags
    \/ SetEventfd

\* the context with hooks that may submit their own block again
NextHook ==
    \/ KernelComplete
    \/ Submit
    \/ GetEvents
    \/ Cancel
    \/ GetEventsResubmitting
    \/ CancelResubmitting

SpecHook == Init /\ [][NextHook]_vars

\* the context with blocks whose buffer list is assigned between the calls
NextRetain ==
    \/ KernelComplete
    \/ Submit
    \/ GetEvents
    \/ Cancel
    \/ AssignBufferList

SpecRetain == Init /\ [][NextRetain]_vars

\* the structures in memory, on every build
NextLayout ==
    \/ FillEvent
    \/ ReadEvent

SpecLayout == InitLayout /\ [][NextLayout]_vars

\* one block given every priority value ioprio.py builds
NextPrio ==
    \/ ConstructPlain
    \/ AssignPrioValue

SpecPrio == Init /\ [][NextPrio]_vars

SpecBlock == Init /\ [][NextBlock]_vars

\* ==== properties ===========================================================
\* the exception the tests expect of a duplicate submission
ValueError == [type |-> "ValueError", errno |-> 0]

HasDuplicate(s) == \E i, j \in DOMAIN s : i < j /\ s[i] = s[j]

\* submissions the kernel holds: in flight, or completed and not yet reaped
Held == inflight \cup {ring[i].sid : i \in DOMAIN ring}

HeldBlocks == {accepted[sid] : sid \in Held}

\* the record was passed to the block's hook, with its values
Hooked(event) ==
    \E j \in DOMAIN calls :
        calls[j] = [block |-> event.obj, res |-> event.res,
                    res2 |-> event.res2, sid |-> event.sid]

\* C1: a submit whose batch holds the same block twice fails, and no block of
\* the batch is registered afterwards.  (Any exception counts as failing; the
\* tests expect ValueError.)
C1_DuplicateInBatchFails ==
    (op = "submit" /\ HasDuplicate(arg)) =>
        /\ exc # NoExc
        /\ \A i \in DOMAIN arg : arg[i] \notin Range(_submitted)

\* C2: a submit of a block that is registered fails and registers nothing,
\* and the earlier submission's completion is then delivered by getEvents
\* without error.  (Any exception counts as failing.)
C2_ResubmitInFlightFails ==
    /\ (op = "submit" /\ \E i \in DOMAIN arg : arg[i] \in Range(before)) =>
          (exc # NoExc /\ _submitted = before)
    /\ (op = "getEvents" /\ exc.type # "HookError") =>
          (exc.type # "KeyError" /\ \A i \in DOMAIN kev : Hooked(kev[i]))

\* C3: while the context is open the table holds exactly the requests the
\* kernel holds: the same blocks, and one entry per request.
C3_TableMatchesKernel ==
    released = 0 =>
        /\ Range(_submitted) = HeldBlocks
        /\ Len(_submitted) = Cardinality(Held)

\* C4: every completion record handed to getEvents or cancel reaches the hook
\* of its block exactly once, with the (res, res2) the call returns for it.
\* (Stated for calls in which no hook raises.)
C4_HookOncePerSubmission ==
    (op \in {"getEvents", "cancel"} /\ kev # <<>> /\ exc.type # "HookError") =>
        /\ exc = NoExc
        /\ Len(calls) = Len(kev)
        /\ \A i \in DOMAIN kev :
              /\ calls[i] = [block |-> kev[i].obj, res |-> kev[i].res,
                             res2 |-> kev[i].res2, sid |-> kev[i].sid]
              /\ hooked[kev[i].sid] = 1
              /\ ret.items[i] = <<kev[i].obj, kev[i].res, kev[i].res2>>

\* C5: when close releases the kernel queue, no request is in flight and the
\* table is empty.
C5_ReleaseAfterDrain ==
    [][(ctx = "open" /\ ctx' = "none") =>
          (inflight = {} /\ _submitted = <<>>)]_vars

\* C6: a close on a context that is already closed changes nothing, calls
\* nothing in libaio and raises nothing.
C6_CloseIdempotent ==
    [][(ctx = "none" /\ op' \in CloseEntries) =>
          /\ UNCHANGED <<ctx, _submitted, accepted, inflight, ring, deferred,
                         reaped, hooked, released>>
          /\ kcalls' = 0
          /\ exc' = NoExc
          /\ ret' = RetNone]_vars

C6_Witness ==
    /\ op \in CloseEntries /\ ctx = "none" /\ kcalls = 0 /\ released = 1
    /\ _submitted # <<>>

\* index of the first occurrence of a block in a batch
First(s, b) == CHOOSE i \in DOMAIN s : s[i] = b /\ \A j \in 1..i - 1 : s[j] # b

\* position of a block in the table (0: absent)
Position(d, b) == IF b \in Range(d) THEN CHOOSE i \in DOMAIN d : d[i] = b ELSE 0

\* C7: when io_submit accepts k of the n blocks, submit returns k, the table
\* is the old table followed by the new blocks among the first k in batch
\* order (of their first occurrence), and a block that is only among the other n-k is not registered.
C7_AcceptedPrefixRegistered ==
    (op = "submit" /\ exc = NoExc) =>
        LET k == kans
            prefix == {arg[i] : i \in 1..k}
        IN  /\ k \in 1..Len(arg)
            /\ ret = RetInt(k)
            /\ SubSeq(_submitted, 1, Len(before)) = before
            /\ Range(_submitted) = Range(before) \cup prefix
            /\ \A x, y \in prefix \ Range(before) :
                  First(arg, x) < First(arg, y)
                      => Position(_submitted, x) < Position(_submitted, y)
            /\ \A i \in k + 1..Len(arg) :
                  arg[i] \notin Range(before) \cup prefix
                      => arg[i] \notin Range(_submitted)

C7_Witness ==
    /\ op = "submit" /\ exc = NoExc /\ Len(arg) = 2 /\ ret = RetInt(1)
    /\ arg[1] \in Range(_submitted) /\ arg[2] \notin Range(_submitted)

\* C8: when io_submit answers with an error, submit raises OSError with that
\* errno and the table is what it was before the call.
C8_RejectedSubmitChangesNothing ==
    (op = "submit" /\ kans < 0) =>
        /\ exc = OSError(0 - kans)
        /\ ret = NoRet
        /\ _submitted = before

C8_Witness ==
    /\ op = "submit" /\ kans < 0 /\ exc.type = "OSError"
    /\ before # <<>> /\ arg[1] \notin Range(before)

\* C9: when io_cancel answers 0 for a registered block, cancel removes the
\* block's entry, calls its hook once with the record's (res, res2) and, the
\* hook returning, returns (block, res, res2); the kernel no longer holds that
\* submission, so no later getEvents gets it.
C9_ImmediateCancelSettles ==
    (op = "cancel" /\ kans = 0 /\ arg[1] \in Range(before)) =>
        /\ Len(kev) = 1 /\ kev[1].obj = arg[1]
        /\ _submitted = DictPop(before, arg[1])
        /\ calls = <<[block |-> arg[1], res |-> kev[1].res,
                      res2 |-> kev[1].res2, sid |-> kev[1].sid]>>
        /\ hooked[kev[1].sid] = 1
        /\ exc \in {NoExc, HookError}
        /\ exc = NoExc => ret = RetTuple(<<arg[1], kev[1].res, kev[1].res2>>)
        /\ kev[1].sid \notin Held

C9_Witness ==
    /\ op = "cancel" /\ kans = 0 /\ arg[1] \in Range(before)
    /\ exc = NoExc /\ ret.kind = "tuple" /\ ret.items[1][2] = -125

\* C10: a cancel answered EINPROGRESS returns None, calls no hook and leaves
\* the table alone; the getEvents call that is handed the record of that
\* submission removes its entry and calls its hook.  (Stated for calls in
\* which no hook raises.)
C10_DeferredCancelDelivered ==
    /\ (op = "cancel" /\ kans = 0 - EINPROGRESS) =>
          (ret = RetNone /\ exc = NoExc /\ calls = <<>> /\ _submitted = before)
    /\ (op = "getEvents" /\ exc.type # "HookError") =>
          \A i \in DOMAIN kev :
              kev[i].sid \in deferred =>
                  (Hooked(kev[i]) /\ hooked[kev[i].sid] = 1)

\* C11: a cancel of a block the kernel does not hold in flight (never
\* submitted, completed already, or completed just before the request: io_cancel
\* answers EINVAL) raises nothing: it returns None with no record, calls no
\* hook and leaves the table alone.
C11_CancelSettledDoesNotRaise ==
    (op = "cancel" /\ kans = 0 - EINVAL) =>
        /\ exc = NoExc
        /\ ret = RetNone
        /\ kev = <<>>
        /\ calls = <<>>
        /\ _submitted = before

\* C12: cancelAll makes one io_cancel call for each block registered when it
\* was called, whatever the table's size and whether or not the cancellations
\* remove entries on the way, and returns one item per call not answered
\* EINVAL: the tuple for an immediate cancellation, None for EINPROGRESS.  Only
\* an error of one of the calls (other than EINVAL) propagates.
C12_CancelAllCancelsEach ==
    op = "cancelAll" =>
        /\ exc.type \in {"none", "OSError", "HookError"}
        /\ exc.type = "OSError" => exc.errno # EINVAL
        /\ exc = NoExc =>
              /\ kcalls = Len(before)
              /\ ret.kind = "list"
              /\ Len(ret.items) <= Len(before)
              /\ \A i \in DOMAIN ret.items :
                    ret.items[i] # <<>> => ret.items[i][1] \in Range(before)
              /\ Len(calls) = Cardinality({i \in DOMAIN ret.items :
                                              ret.items[i] # <<>>})

\* submissions of a block the kernel accepted so far
SubmissionsOf(b) == {sid \in DOMAIN accepted : accepted[sid] = b}

\* C13: when cancelAll returns, no block that was registered when it was
\* called is in flight with the kernel.  (Stated for blocks submitted once.)
C13_CancelAllFinalises ==
    (op = "cancelAll" /\ exc = NoExc) =>
        \A b \in Range(before) :
            Cardinality(SubmissionsOf(b)) = 1 => SubmissionsOf(b) \cap inflight = {}

\* the tuple getEvents and cancel return for a record
EventTuple(event) == <<event.obj, event.res, event.res2>>

\* the hook call a record stands for
HookCall(event) ==
    [block |-> event.obj, res |-> event.res, res2 |-> event.res2,
     sid |-> event.sid]

\* C14: getEvents returns one tuple (block, res, res2) per record the kernel
\* handed over, in the kernel's order; the hooks were called in that order
\* before it returned and the records' entries are gone from the table.
\* (Stated for calls in which no hook raises.)
C14_EventsInKernelOrder ==
    (op = "getEvents" /\ kans >= 0 /\ exc.type # "HookError") =>
        /\ exc = NoExc
        /\ ret = RetList([i \in DOMAIN kev |-> EventTuple(kev[i])])
        /\ calls = [i \in DOMAIN kev |-> HookCall(kev[i])]
        /\ \A i \in DOMAIN kev : kev[i].obj \notin Range(_submitted)

\* C15: getEvents hands io_getevents the table's size at call time as the
\* minimum when min_nr is None, and the larger of that size and maxevents as
\* the maximum when nr is None; with both None the minimum is at most the
\* maximum.
C15_NoneBoundsFromTable ==
    op = "getEvents" =>
        /\ arg[1] = NoneV => kargs[1] = Len(before)
        /\ arg[2] = NoneV =>
              /\ kargs[2] \in {Len(before), Maxevents}
              /\ kargs[2] >= Len(before)
              /\ kargs[2] >= Maxevents
        /\ (arg[1] = NoneV /\ arg[2] = NoneV) => kargs[1] <= kargs[2]

C15_Witness ==
    /\ op = "getEvents" /\ arg = <<NoneV, NoneV, NoneV>>
    /\ Len(before) > Maxevents /\ kargs = <<Len(before), Len(before)>>
    /\ exc = NoExc /\ Len(ret.items) = Len(before)

\* C16: getEvents(min_nr=None, timeout=None) on an open context, once the
\* kernel has completed what it waits for, returns one tuple for each block
\* registered when it was called and leaves the table empty.  (Stated for
\* calls in which no hook raises.)
C16_WaitForAllReturnsAll ==
    (op = "getEvents" /\ arg = <<NoneV, NoneV, NoneV>> /\ kans >= 0
        /\ exc.type # "HookError") =>
        /\ exc = NoExc
        /\ Len(ret.items) = Len(before)
        /\ {ret.items[i][1] : i \in DOMAIN ret.items} = Range(before)
        /\ _submitted = <<>>

\* C17: a getEvents whose wait is bounded (a timeout, or min_nr = 0) returns
\* the tuples of the records available, possibly none, and raises nothing; a
\* request still in flight has had no hook call and its block is still
\* registered.  (Stated for calls in which no hook raises.)
C17_BoundedWaitReturnsAvailable ==
    (op = "getEvents" /\ (arg[3] # NoneV \/ arg[1] = 0) /\ kans >= 0
        /\ exc.type # "HookError") =>
        /\ exc = NoExc
        /\ ret = RetList([i \in DOMAIN kev |-> EventTuple(kev[i])])
        /\ \A sid \in inflight :
              hooked[sid] = 0 /\ accepted[sid] \in Range(_submitted)

\* the exception of a constructor that rejects fields that do not fit the mode
InvalidCombination == [type |-> "InvalidCombination", errno |-> 0]

\* constructor arguments with a field that does not belong to the mode
Mismatched(a) ==
    IF a.mode = "POLL"
    THEN a.buffer_list # <<>> \/ a.offset # 0 \/ a.rw_flags # 0
    ELSE a.event_mask # 0

\* C18: constructing an AIOBlock with a field that does not belong to its mode
\* (buffers, an offset or rw_flags with POLL; an event mask with another mode)
\* fails with InvalidCombination, and the context and its queue are untouched.
C18_MismatchedFieldsRejected ==
    (bcall.op = "__init__" /\ Mismatched(bcall.value)) =>
        /\ bcall.exc = InvalidCombination
        /\ kcalls = 1 /\ op = "init"

\* C19: assigning buffer_list on a POLL block raises AttributeError and leaves
\* every field of the block (event mask, buffer count, retained buffers,
\* scatter/gather table) as it was.
C19_BufferListRejectedOnPoll ==
    (bcall.op = "buffer_list" /\ bcall.before.aio_lio_opcode = IO_CMD_POLL) =>
        /\ bcall.exc = AttributeError
        /\ blk = bcall.before

C19_Witness ==
    /\ bcall.op = "buffer_list" /\ bcall.before.aio_lio_opcode = IO_CMD_POLL
    /\ bcall.value # <<>> /\ bcall.exc = AttributeError
    /\ blk.buf = c_void_p(1) /\ blk.nbytes = 0

\* the value given to the last eventfd assignment (the constructor makes one)
EventfdGiven == IF bcall.op = "__init__" THEN bcall.value.eventfd ELSE bcall.value

\* C20: after eventfd is assigned a target (by the constructor or later),
\* IOCB_FLAG_RESFD is set, resfd is the target's file descriptor and the
\* eventfd property returns the target; after None is assigned the flag is
\* clear, resfd is 0 and the property returns None.
C20_EventfdStored ==
    (bcall.op \in {"__init__", "eventfd"} /\ bcall.exc = NoExc) =>
        IF EventfdGiven = PyNone
        THEN /\ ~HasFlag(blk.flags, IOCB_FLAG_RESFD)
             /\ blk.resfd = 0
             /\ eventfd_getter(blk) = PyNone
        ELSE /\ HasFlag(blk.flags, IOCB_FLAG_RESFD)
             /\ blk.resfd = EventfdGiven.fd
             /\ eventfd_getter(blk) = EventfdGiven

\* ---- C21 ----------------------------------------------------------------------------
\* C21: io_priority reads None exactly when the IOPRIO flag is clear.  A block
\* built without a priority reads None; assigning an integer priority sets the flag
\* and reads that integer back; assigning None clears the flag, puts 0 in the
\* priority field and reads None; neither assignment touches the RESFD flag.
C21_IoPriorityFollowsFlag ==
    Constructed =>
        /\ (io_priority_getter(blk) = NoneV) <=> ~HasFlag(blk.flags, IOCB_FLAG_IOPRIO)
        /\ ~HasFlag(blk.flags, IOCB_FLAG_IOPRIO) => blk.aio_reqprio = 0
        /\ (bcall.op = "__init__" /\ bcall.exc = NoExc
                                  /\ bcall.value.io_priority = NoneV)
              => io_priority_getter(blk) = NoneV
        /\ bcall.op = "io_priority" =>
              /\ bcall.exc = NoExc
              /\ io_priority_getter(blk) = bcall.value
              /\ HasFlag(blk.flags, IOCB_FLAG_IOPRIO) <=> bcall.value # NoneV
              /\ HasFlag(blk.flags, IOCB_FLAG_RESFD)
                    <=> HasFlag(bcall.before.flags, IOCB_FLAG_RESFD)

\* None was assigned to a block that had a priority and an eventfd
C21_Witness ==
    /\ bcall.op = "io_priority"
    /\ bcall.value = NoneV
    /\ io_priority_getter(bcall.before) = 1
    /\ HasFlag(bcall.before.flags, IOCB_FLAG_RESFD)
    /\ blk.flags = IOCB_FLAG_RESFD
    /\ blk.aio_reqprio = 0

\* ---- C26 ----------------------------------------------------------------------------
IsPoll(b) == b.aio_lio_opcode = IO_CMD_POLL

\* C26: a mode change between POLL and any other mode leaves no field of the
\* old kind behind: the buffer list is empty, and offset, rw_flags and the event
\* mask are 0; target_file, io_priority and eventfd are as before the change.
C26_ModeChangeClearsKindFields ==
    (bcall.op = "mode" /\ bcall.exc = NoExc /\ IsPoll(bcall.before) # IsPoll(blk))
        => /\ blk._buffer_list = Tuple(<<>>)
           /\ blk.nbytes = 0
           /\ blk.buf = NullPtr
           /\ blk.offset = 0
           /\ blk.aio_rw_flags = 0
           /\ blk._file = bcall.before._file
           /\ blk.aio_fildes = bcall.before.aio_fildes
           /\ io_priority_getter(blk) = io_priority_getter(bcall.before)
           /\ eventfd_getter(blk) = eventfd_getter(bcall.before)
           /\ blk.flags = bcall.before.flags
           /\ blk.resfd = bcall.before.resfd

\* ---- C28 ----------------------------------------------------------------------------
\* C28: offset exists only off POLL: reading or assigning it on a POLL block is
\* rejected and changes nothing, so a POLL block always has offset 0; on any other
\* block reading offset returns the integer the field holds.
C28_OffsetOnlyOffPoll ==
    Constructed =>
        /\ IsPoll(blk) => blk.offset = 0
        /\ (bcall.op \in {"offset", "offset (read)"} /\ IsPoll(bcall.before))
              => bcall.exc = AttributeError /\ blk = bcall.before
        /\ (bcall.op = "offset (read)" /\ ~IsPoll(bcall.before))
              => bcall.exc = NoExc /\ bcall.value = blk.offset

C25_ReleasedAtMostOnce ==
    [][released' <= 1 /\ (InitFailed => released' = 0)]_vars

\* ---- C29 ----------------------------------------------------------------------------
\* the i-th record the kernel handed over has no entry when its turn comes
Orphan(i) ==
    \/ kev[i].obj \notin Range(before)
    \/ \E j \in 1..(i - 1) : kev[j].obj = kev[i].obj

\* C29: a completion record whose block has no entry in the table makes getEvents
\* or cancel end with an error: KeyError, or the exception of an earlier record's
\* hook; no hook is called for the record and no tuple is returned.
C29_UnknownTokenFails ==
    op \in {"getEvents", "cancel"} =>
        \A i \in DOMAIN kev :
            Orphan(i) =>
                /\ ret = NoRet
                /\ \A c \in Range(calls) : c.sid # kev[i].sid
                /\ Len(calls) < i
                /\ \/ exc = KeyError
                   \/ /\ exc = HookError
                      /\ hooks[Len(hooks)].does = HookRaises

\* the kernel handed over the record of a block whose entry an earlier record
\* of the same block had removed
C29_Witness ==
    /\ op = "getEvents"
    /\ Len(kev) = 1
    /\ Orphan(1)
    /\ kev[1].sid \in reaped
    /\ calls = <<>>
    /\ ret = NoRet
    /\ exc = KeyError

\* ---- C30 ----------------------------------------------------------------------------
\* C30: when a hook runs, its block's entry is not in the table any more; when the
\* hook submits its own block again, a new submission is in flight and the block is
\* registered when the enclosing getEvents or cancel has returned.
C30_HookMayResubmit ==
    /\ \A i \in DOMAIN hooks : ~hooks[i].entry
    /\ (op \in {"getEvents", "cancel"} /\ exc = NoExc) =>
          \A i \in DOMAIN hooks :
              hooks[i].does = HookSubmits =>
                  /\ accepted[Len(accepted)] = calls[i].block
                  /\ Len(accepted) \in Held
                  /\ Len(accepted) \notin reaped
                  /\ calls[i].block \in Range(_submitted)

\* ---- C22 ----------------------------------------------------------------------------
\* C22: as long as a block is registered, its table entry holds the buffers and
\* the iovec array that each of its requests in flight was submitted with, also
\* after the block was given another buffer list.
C22_EntryKeepsSubmittedBuffers ==
    \A sid \in inflight :
        accepted[sid] \in Range(_submitted) => kept[accepted[sid]] = kmem[sid]

\* ---- C23 ----------------------------------------------------------------------------
\* C23: res and res2 are read as signed integers: what Python reads from a record
\* is the integer the kernel wrote, a negative one included, on every build.
C23_ResultsAreSigned ==
    abi.got.some =>
        /\ abi.got.res = abi.wrote.res
        /\ abi.got.res2 = abi.wrote.res2
        /\ abi.wrote.res < 0 => abi.got.res < 0
        /\ abi.wrote.res2 < 0 => abi.got.res2 < 0

\* -ECANCELED read back on a big-endian build with 4-byte longs
C23_Witness ==
    /\ abi.plat.long = 4
    /\ abi.plat.order = "big"
    /\ abi.wrote.res = -125
    /\ abi.wrote.res2 = -1
    /\ abi.got.some
    /\ abi.got.res = -125
    /\ abi.got.res2 = -1

\* ---- C27 ----------------------------------------------------------------------------
\* the field lies on the least significant bytes of the 64-bit slot at offset
\* slot of the structure
LowBytes(fields, name, slot, v) ==
    LET at == offsetof(fields, name, v)
        size == sizeof(FieldType(fields, name), v)
    IN  at = IF v.order = "little" THEN slot ELSE slot + 8 - size

\* C27: on every build iocb takes 64 bytes and io_event 32; every padded field
\* lies on the least significant bytes of its 64-bit slot; key comes before
\* aio_rw_flags on a little-endian build and behind it on a big-endian one.
C27_LayoutMatchesKernel ==
    LET v == abi.plat
    IN  /\ StructSize(iocb(v), v) = 64
        /\ StructSize(io_event(v), v) = 32
        /\ LowBytes(iocb(v), "data", 0, v)
        /\ offsetof(iocb(v), "u", v) = 24
        /\ LowBytes(io_iocb_common(v), "buf", 0, v)
        /\ LowBytes(io_iocb_common(v), "nbytes", 8, v)
        /\ LowBytes(io_iocb_poll(v), "events", 0, v)
        /\ LowBytes(io_event(v), "data", 0, v)
        /\ LowBytes(io_event(v), "obj", 8, v)
        /\ LowBytes(io_event(v), "res", 16, v)
        /\ LowBytes(io_event(v), "res2", 24, v)
        /\ offsetof(iocb(v), "key", v)
              = IF v.order = "little" THEN 8 ELSE 12
        /\ offsetof(iocb(v), "aio_rw_flags", v)
              = IF v.order = "little" THEN 12 ELSE 8

\* a record was read on the big-endian build with 4-byte longs, where every
\* padded field comes behind its padding
C27_Witness ==
    /\ abi.plat = [long |-> 4, order |-> "big", wide |-> 4]
    /\ abi.got.some
    /\ offsetof(iocb(abi.plat), "data", abi.plat) = 4
    /\ offsetof(iocb(abi.plat), "key", abi.plat) = 12
    /\ offsetof(io_event(abi.plat), "res2", abi.plat) = 28

\* ---- C31 ----------------------------------------------------------------------------
\* C31: when a hook raises inside getEvents, every record the kernel handed over
\* in that call has had its entry removed: no block of these records is still
\* registered when the call has ended.
C31_RaisingHookKeepsTableInStep ==
    (op = "getEvents" /\ exc = HookError) =>
        \A i \in DOMAIN kev : kev[i].obj \notin Range(_submitted)

\* ---- C32 ----------------------------------------------------------------------------
\* C32: a priority value built from a class and data below 2^13 gives both back
\* as value >> 13 and value mod 2^13, lies within the signed 16-bit priority
\* field, and is what io_priority reads after it was assigned.
C32_PrioValueRoundTrip ==
    bcall.op = "io_priority = IOPRIO_PRIO_VALUE" =>
        LET value == bcall.value.priority
        IN  /\ (value \div (2 ^ IOPRIO_CLASS_SHIFT)) = bcall.value.klass
            /\ value % (2 ^ IOPRIO_CLASS_SHIFT) = bcall.value.data
            /\ value >= 0 - 32768
            /\ value <= 32767
            /\ bcall.exc = NoExc
            /\ blk.aio_reqprio = value
            /\ io_priority_getter(blk) = value

\* the largest value: class IDLE with all 13 data bits set
C32_Witness ==
    /\ bcall.op = "io_priority = IOPRIO_PRIO_VALUE"
    /\ bcall.value.klass = IOPRIO_CLASS_IDLE
    /\ bcall.value.data = 8191
    /\ bcall.value.priority = 32767
    /\ io_priority_getter(blk) = 32767

====
